---- MODULE Spec2Model ----
(***************************************************************************)
(* A model of packages/pg-v5/lib/psql.js: runWithTunnel and the pieces it  *)
(* composes (Tunnel, waitForPSQLExit, kill, the SIGINT trap).              *)
(*                                                                         *)
(* One step of the model is one turn of the node event loop: an event      *)
(* ('close' or 'error' of the child or of the tunnel, a SIGINT, the        *)
(* settling of Tunnel.connect) together with every promise continuation    *)
(* it triggers, which node runs to completion before the next event.       *)
(***************************************************************************)
EXTENDS Integers, Sequences, FiniteSets, TLC

\* Bounds of the model.
NumRuns == 2
MaxExitCode == 2
MaxWaits == 3
MaxCloses == 3

Runs == 1..NumRuns

\* The id of a SIGINT listener that some other part of the host process
\* registered; the listener of run r has id r.
HostListener == 0

(***************************************************************************)
(* JavaScript values and the conversions the code relies on.               *)
(***************************************************************************)
JSNull == [type |-> "null", num |-> 0, str |-> ""]
JSNum(n) == [type |-> "number", num |-> n, str |-> ""]
JSStr(s) == [type |-> "string", num |-> 0, str |-> s]

\* Array.prototype.join's treatment of one element: null is the empty string.
ElementToString(v) ==
  CASE v.type = "null" -> ""
    [] v.type = "number" -> ToString(v.num)
    [] v.type = "string" -> v.str

\* Array.prototype.toString, which is join(",").
RECURSIVE ArrayToString(_)
ArrayToString(a) ==
  IF a = <<>> THEN ""
  ELSE IF Len(a) = 1 THEN ElementToString(a[1])
  ELSE ElementToString(a[1]) \o "," \o ArrayToString(Tail(a))

\* ToNumber of a string: the empty string is 0, a decimal literal is its
\* value, anything else is NaN.
StringToNumber(s) ==
  IF s = "" THEN [nan |-> FALSE, val |-> 0]
  ELSE IF \E n \in 0..MaxExitCode : ToString(n) = s
       THEN [nan |-> FALSE, val |-> CHOOSE n \in 0..MaxExitCode : ToString(n) = s]
       ELSE [nan |-> TRUE, val |-> 0]

\* `exitCode > 0` where exitCode is the array events.once resolved with:
\* the array is converted to a string, the string to a number, and a
\* comparison with NaN is false.
GreaterThanZero(exitCode) ==
  LET n == StringToNumber(ArrayToString(exitCode))
  IN  ~n.nan /\ n.val > 0

(***************************************************************************)
(* Errors and promises.                                                    *)
(***************************************************************************)
NoErr == [message |-> "", code |-> ""]
Err(m) == [message |-> m, code |-> ""]

Unstarted == [state |-> "unstarted", err |-> NoErr]
Pending == [state |-> "pending", err |-> NoErr]
Fulfilled == [state |-> "fulfilled", err |-> NoErr]
Rejected(e) == [state |-> "rejected", err |-> e]

ReferenceErr == Err("ReferenceError: psql is not defined")
TunnelFailedErr == Err("Secure tunnel to your database failed")
PsqlNotFoundErr == Err("The local psql command could not be located")
ChildFailedErr(exitCode) == Err("psql exited with code " \o ArrayToString(exitCode))

\* Errors that come from outside the module.
ConnectErr == Err("Unable to establish a secure tunnel to your database.")
TransportCloseErr == Err("tunnel close failed")
SpawnErrs == {[message |-> "spawn psql ENOENT", code |-> "ENOENT"],
              [message |-> "spawn psql EACCES", code |-> "EACCES"]}
TransportErrs == {[message |-> "read ECONNRESET", code |-> "ECONNRESET"]}

\* What a child can emit with 'close': (code, signal).
ExternalSignals == {"SIGTERM"}
ClosePayloads ==
  {<<JSNum(n), JSNull>> : n \in 0..MaxExitCode}
    \cup {<<JSNull, JSStr(s)>> : s \in ExternalSignals}

VARIABLES
  pc,               \* where each run of runWithTunnel stands
  tunnelKind,       \* "unset", "bastion" (this.bastionTunnel set) or "fake"
  transport,        \* the bastion tunnel: absent, open, closing, closed, errored
  transportCloses,  \* calls of bastionTunnel.close()
  child,            \* the psql child: unspawned, running, exited, failed
  exitArgs,         \* what the child emitted with 'close'
  killed,           \* childProcess.killed
  delivered,        \* the signals childProcess.kill delivered to the child
  psqlExit,         \* the promise of waitForPSQLExit(psql)
  tunnelClose,      \* the promise of tunnel.waitForClose()
  race,             \* the promise of Promise.race([...])
  winner,           \* which of the two settled the race
  result,           \* the promise runWithTunnel returned
  calls,            \* the teardown calls of the finally block, in order
  sigintListeners,  \* process.listeners('SIGINT'), in order
  proc,             \* the node process: running, crashed, terminated
  tun               \* a Tunnel used on its own, outside any run

runVars == <<pc, tunnelKind, transport, transportCloses, child, exitArgs,
             killed, delivered, psqlExit, tunnelClose, race, winner, result,
             calls, sigintListeners, proc>>

vars == <<runVars, tun>>


(***************************************************************************)
(* waitForPSQLExit: the promise it returns, by the event the child emits.  *)
(***************************************************************************)
\* A catch block that rethrows every error as it is.
CatchRethrowsAll(err) == err

\* The catch block: an ENOENT error becomes the install-help error, any
\* other error is rethrown as it is.
CatchPSQLError(err) ==
  IF err.code = "ENOENT" THEN PsqlNotFoundErr ELSE err

\* A wait that takes every exit code other than 0, null included, for a
\* failure.
WaitForPSQLExitOnCloseStrict(exitCode) ==
  IF exitCode[1] # JSNum(0)
  THEN Rejected(CatchPSQLError(ChildFailedErr(exitCode)))
  ELSE Fulfilled

\* The child emitted 'close' with args: once() resolves with them.
WaitForPSQLExitOnClose(exitCode) ==
  IF GreaterThanZero(exitCode)
  THEN Rejected(CatchPSQLError(ChildFailedErr(exitCode)))
  ELSE Fulfilled

\* The child emitted 'error' with err: once() rejects with it.
WaitForPSQLExitOnError(err) == Rejected(CatchPSQLError(err))

(***************************************************************************)
(* Tunnel.waitForClose with a bastion tunnel.                              *)
(***************************************************************************)
\* A wait that fails when the transport closes.
WaitForCloseOnCloseFails == Rejected(TunnelFailedErr)

\* The transport emitted 'close': once() resolves and so does the wait.
WaitForCloseOnClose == Fulfilled

\* A wait that fails with the transport's own error.
WaitForCloseOnErrorRaw(err) == Rejected(err)

\* The transport emitted 'error': once() rejects; the catch block throws
\* the fixed error in place of the transport's.
WaitForCloseOnError(err) == Rejected(TunnelFailedErr)

(***************************************************************************)
(* kill                                                                    *)
(***************************************************************************)
\* The names bound at the top level of the module.
ModuleBindings ==
  {"once", "EventEmitter", "bastion", "debug", "psqlQueryOptions",
   "psqlFileOptions", "psqlInteractiveOptions", "execPSQL", "waitForPSQLExit",
   "kill", "trapAndForwardSignalsToChildProcess", "runWithTunnel", "Tunnel",
   "exec", "execFile", "interactive"}

\* childProcess.kill(signal) of node: a running child gets the signal and
\* is marked killed; a child that is gone gets nothing.
ChildProcessKill(childState, isKilled) ==
  IF childState = "running"
  THEN [threw |-> FALSE, err |-> NoErr, sent |-> TRUE, killed |-> TRUE]
  ELSE [threw |-> FALSE, err |-> NoErr, sent |-> FALSE, killed |-> isKilled]

\* kill(childProcess, signal): nothing when childProcess.killed; otherwise
\* the call psql('killing psql child process') is evaluated first, and
\* psql names nothing in scope.
Kill(childState, isKilled) ==
  IF ~isKilled
  THEN IF "psql" \notin ModuleBindings
       THEN [threw |-> TRUE, err |-> ReferenceErr, sent |-> FALSE, killed |-> isKilled]
       ELSE ChildProcessKill(childState, isKilled)
  ELSE [threw |-> FALSE, err |-> NoErr, sent |-> FALSE, killed |-> isKilled]

(***************************************************************************)
(* trapAndForwardSignalsToChildProcess                                     *)
(***************************************************************************)
\* An install that leaves the listeners it finds in place.
InstallKeepsOthers(listeners, r) == Append(listeners, r)

\* process.removeAllListeners('SIGINT'), then process.on('SIGINT', listener).
InstallSignalTrap(listeners, r) == <<r>>

\* A cleanup that removes nothing.
CleanupKeepsListener(listeners, r) == listeners

\* The returned cleanup: process.removeListener('SIGINT', listener).
CleanupSignalTraps(listeners, r) == SelectSeq(listeners, LAMBDA l : l # r)

(***************************************************************************)
(* Tunnel.close                                                            *)
(***************************************************************************)
\* A close whose fake 'close' event reaches no pending waitForClose.
TunnelCloseResolvesNothing(kind, transportNow, waitNow, closeThrows) ==
  [threw |-> kind = "bastion" /\ closeThrows,
   err |-> IF kind = "bastion" /\ closeThrows THEN TransportCloseErr ELSE NoErr,
   transport |-> IF kind = "bastion" /\ ~closeThrows /\ transportNow = "open"
                 THEN "closing" ELSE transportNow,
   wait |-> waitNow,
   closes |-> IF kind = "bastion" THEN 1 ELSE 0]

\* With a bastion tunnel: bastionTunnel.close(), which is outside the
\* module and may throw.  Without: events.emit('close', 0), which resolves
\* a pending waitForClose.
TunnelClose(kind, transportNow, waitNow, closeThrows) ==
  IF kind = "bastion"
  THEN [threw |-> closeThrows,
        err |-> IF closeThrows THEN TransportCloseErr ELSE NoErr,
        transport |-> IF ~closeThrows /\ transportNow = "open"
                      THEN "closing" ELSE transportNow,
        wait |-> waitNow,
        closes |-> 1]
  ELSE [threw |-> FALSE, err |-> NoErr, transport |-> transportNow,
        wait |-> IF waitNow.state = "pending" THEN Fulfilled ELSE waitNow,
        closes |-> 0]

\* A finally block with its steps reversed: kill, tunnel.close, cleanup.
FinallyKillFirst(r, childNow, transportNow, waitNow, closeThrows) ==
  LET k == Kill(childNow, killed[r])
      c == TunnelClose(tunnelKind[r], transportNow, waitNow, closeThrows)
      step1 == [fn |-> "cleanupSignalTraps", threw |-> FALSE]
      step2 == [fn |-> "tunnel.close", threw |-> c.threw]
      step3 == [fn |-> "kill", threw |-> k.threw]
  IN  IF k.threw
      THEN [listeners |-> sigintListeners, transport |-> transportNow,
            wait |-> waitNow, closes |-> transportCloses[r],
            calls |-> <<step3>>, killed |-> killed[r],
            delivered |-> delivered[r], threw |-> TRUE, err |-> k.err]
      ELSE [listeners |-> IF c.threw THEN sigintListeners
                          ELSE SelectSeq(sigintListeners, LAMBDA l : l # r),
            transport |-> c.transport, wait |-> c.wait,
            closes |-> transportCloses[r] + c.closes,
            calls |-> IF c.threw THEN <<step3, step2>> ELSE <<step3, step2, step1>>,
            killed |-> k.killed,
            delivered |-> IF k.sent THEN Append(delivered[r], "SIGKILL")
                          ELSE delivered[r],
            threw |-> c.threw, err |-> c.err]

(***************************************************************************)
(* The finally block of runWithTunnel, run in the state an event left:     *)
(* cleanupSignalTraps(); tunnel.close(); kill(psql, 'SIGKILL').  A step    *)
(* that throws ends the block, and its error is what the block throws.     *)
(***************************************************************************)
Finally(r, childNow, transportNow, waitNow, closeThrows) ==
  LET c == TunnelClose(tunnelKind[r], transportNow, waitNow, closeThrows)
      k == Kill(childNow, killed[r])
      step1 == [fn |-> "cleanupSignalTraps", threw |-> FALSE]
      step2 == [fn |-> "tunnel.close", threw |-> c.threw]
      step3 == [fn |-> "kill", threw |-> k.threw]
  IN  [listeners |-> CleanupSignalTraps(sigintListeners, r),
       transport |-> c.transport,
       wait |-> c.wait,
       closes |-> transportCloses[r] + c.closes,
       calls |-> IF c.threw THEN <<step1, step2>> ELSE <<step1, step2, step3>>,
       killed |-> IF c.threw THEN killed[r] ELSE k.killed,
       delivered |-> IF ~c.threw /\ k.sent
                     THEN Append(delivered[r], "SIGKILL") ELSE delivered[r],
       threw |-> c.threw \/ k.threw,
       err |-> IF c.threw THEN c.err ELSE k.err]

\* What runWithTunnel's promise settles to: what the finally block threw,
\* and otherwise the outcome of the race.
Completion(raceOutcome, fin) ==
  IF fin.threw THEN Rejected(fin.err) ELSE raceOutcome


\* No Tunnel has been constructed.
NoTunnel ==
  [kind |-> "unset", transport |-> "absent", transportCloses |-> 0,
   closeCalls |-> 0, waits |-> <<>>]

(***************************************************************************)
(* The state before any run.  Other parts of the host process may have     *)
(* registered a SIGINT listener of their own.                              *)
(***************************************************************************)
Init ==
  /\ pc = [r \in Runs |-> "idle"]
  /\ tunnelKind = [r \in Runs |-> "unset"]
  /\ transport = [r \in Runs |-> "absent"]
  /\ transportCloses = [r \in Runs |-> 0]
  /\ child = [r \in Runs |-> "unspawned"]
  /\ exitArgs = [r \in Runs |-> <<>>]
  /\ killed = [r \in Runs |-> FALSE]
  /\ delivered = [r \in Runs |-> <<>>]
  /\ psqlExit = [r \in Runs |-> Unstarted]
  /\ tunnelClose = [r \in Runs |-> Unstarted]
  /\ race = [r \in Runs |-> Unstarted]
  /\ winner = [r \in Runs |-> "none"]
  /\ result = [r \in Runs |-> Unstarted]
  /\ calls = [r \in Runs |-> <<>>]
  /\ sigintListeners \in {<<>>, <<HostListener>>}
  /\ proc = "running"
  /\ tun = NoTunnel

\* runWithTunnel is called: it awaits Tunnel.connect.
Call(r) ==
  /\ proc = "running"
  /\ pc[r] = "idle"
  /\ pc' = [pc EXCEPT ![r] = "connecting"]
  /\ result' = [result EXCEPT ![r] = Pending]
  /\ UNCHANGED <<tunnelKind, transport, transportCloses, child, exitArgs,
                 killed, delivered, psqlExit, tunnelClose, race, winner,
                 calls, sigintListeners>>
  /\ UNCHANGED <<proc, tun>>

\* A run that spawns psql and installs the trap before it learns that the
\* tunnel could not be connected.
ConnectRejectAfterSpawn(r) ==
  /\ proc = "running"
  /\ pc[r] = "connecting"
  /\ pc' = [pc EXCEPT ![r] = "settled"]
  /\ result' = [result EXCEPT ![r] = Rejected(ConnectErr)]
  /\ child' = [child EXCEPT ![r] = "running"]
  /\ sigintListeners' = <<r>>
  /\ UNCHANGED <<tunnelKind, transport, transportCloses, exitArgs,
                 killed, delivered, psqlExit, tunnelClose, race, winner,
                 calls, proc, tun>>

\* bastion.sshTunnel rejected: so does Tunnel.connect, and runWithTunnel
\* with it, before anything else ran.
ConnectReject(r) ==
  /\ proc = "running"
  /\ pc[r] = "connecting"
  /\ pc' = [pc EXCEPT ![r] = "settled"]
  /\ result' = [result EXCEPT ![r] = Rejected(ConnectErr)]
  /\ UNCHANGED <<tunnelKind, transport, transportCloses, child, exitArgs,
                 killed, delivered, psqlExit, tunnelClose, race, winner,
                 calls, sigintListeners>>
  /\ UNCHANGED <<proc, tun>>

\* bastion.sshTunnel resolved, with a tunnel or with undefined: the Tunnel
\* is made, psql is spawned, the SIGINT trap is installed and the race of
\* waitForPSQLExit(psql) and tunnel.waitForClose() is awaited.
ConnectResolve(r, needsBastion) ==
  /\ proc = "running"
  /\ pc[r] = "connecting"
  /\ tunnelKind' = [tunnelKind EXCEPT ![r] = IF needsBastion THEN "bastion" ELSE "fake"]
  /\ transport' = [transport EXCEPT ![r] = IF needsBastion THEN "open" ELSE "absent"]
  /\ child' = [child EXCEPT ![r] = "running"]
  /\ sigintListeners' = InstallSignalTrap(sigintListeners, r)
  /\ psqlExit' = [psqlExit EXCEPT ![r] = Pending]
  /\ tunnelClose' = [tunnelClose EXCEPT ![r] = Pending]
  /\ race' = [race EXCEPT ![r] = Pending]
  /\ pc' = [pc EXCEPT ![r] = "racing"]
  /\ UNCHANGED <<transportCloses, exitArgs, killed, delivered, winner,
                 result, calls, proc, tun>>

\* A run that awaits waitForPSQLExit alone: an event of the tunnel leaves
\* it waiting.
AfterEventAwaitsPsqlOnly(r, childNew, argsNew, transportNew, psqlExitNew, tunnelCloseNew, who, closeThrows) ==
  /\ child' = [child EXCEPT ![r] = childNew]
  /\ exitArgs' = [exitArgs EXCEPT ![r] = argsNew]
  /\ psqlExit' = [psqlExit EXCEPT ![r] = psqlExitNew]
  /\ IF pc[r] = "racing" /\ who = "psql"
     THEN LET outcome == IF who = "psql" THEN psqlExitNew ELSE tunnelCloseNew
              fin == Finally(r, childNew, transportNew, tunnelCloseNew, closeThrows)
          IN  /\ race' = [race EXCEPT ![r] = outcome]
              /\ winner' = [winner EXCEPT ![r] = who]
              /\ sigintListeners' = fin.listeners
              /\ transport' = [transport EXCEPT ![r] = fin.transport]
              /\ tunnelClose' = [tunnelClose EXCEPT ![r] = fin.wait]
              /\ transportCloses' = [transportCloses EXCEPT ![r] = fin.closes]
              /\ calls' = [calls EXCEPT ![r] = fin.calls]
              /\ killed' = [killed EXCEPT ![r] = fin.killed]
              /\ delivered' = [delivered EXCEPT ![r] = fin.delivered]
              /\ result' = [result EXCEPT ![r] = Completion(outcome, fin)]
              /\ pc' = [pc EXCEPT ![r] = "settled"]
     ELSE /\ transport' = [transport EXCEPT ![r] = transportNew]
          /\ tunnelClose' = [tunnelClose EXCEPT ![r] = tunnelCloseNew]
          /\ UNCHANGED <<race, winner, sigintListeners, transportCloses,
                         calls, killed, delivered, result, pc>>
  /\ UNCHANGED <<tunnelKind, proc, tun>>

\* What an event of run r's child or tunnel leads to.  While the race is
\* pending the event settles it through `who`, and the continuation of
\* runWithTunnel runs the finally block and settles the run.  Later the
\* event only settles the wait that was left behind.
AfterEvent(r, childNew, argsNew, transportNew, psqlExitNew, tunnelCloseNew, who, closeThrows) ==
  /\ child' = [child EXCEPT ![r] = childNew]
  /\ exitArgs' = [exitArgs EXCEPT ![r] = argsNew]
  /\ psqlExit' = [psqlExit EXCEPT ![r] = psqlExitNew]
  /\ IF pc[r] = "racing"
     THEN LET outcome == IF who = "psql" THEN psqlExitNew ELSE tunnelCloseNew
              fin == Finally(r, childNew, transportNew, tunnelCloseNew, closeThrows)
          IN  /\ race' = [race EXCEPT ![r] = outcome]
              /\ winner' = [winner EXCEPT ![r] = who]
              /\ sigintListeners' = fin.listeners
              /\ transport' = [transport EXCEPT ![r] = fin.transport]
              /\ tunnelClose' = [tunnelClose EXCEPT ![r] = fin.wait]
              /\ transportCloses' = [transportCloses EXCEPT ![r] = fin.closes]
              /\ calls' = [calls EXCEPT ![r] = fin.calls]
              /\ killed' = [killed EXCEPT ![r] = fin.killed]
              /\ delivered' = [delivered EXCEPT ![r] = fin.delivered]
              /\ result' = [result EXCEPT ![r] = Completion(outcome, fin)]
              /\ pc' = [pc EXCEPT ![r] = "settled"]
     ELSE /\ transport' = [transport EXCEPT ![r] = transportNew]
          /\ tunnelClose' = [tunnelClose EXCEPT ![r] = tunnelCloseNew]
          /\ UNCHANGED <<race, winner, sigintListeners, transportCloses,
                         calls, killed, delivered, result, pc>>
  /\ UNCHANGED <<tunnelKind, proc, tun>>

\* bastionTunnel.close() can only throw where it is called: in the finally
\* block of a run with a bastion tunnel.
MayThrow(r, closeThrows) ==
  closeThrows => (pc[r] = "racing" /\ tunnelKind[r] = "bastion")

\* The child emits 'close' with (code, signal).
ChildClose(r, args, closeThrows) ==
  /\ proc = "running"
  /\ child[r] = "running"
  /\ MayThrow(r, closeThrows)
  /\ AfterEvent(r, "exited", args, transport[r],
                WaitForPSQLExitOnClose(args), tunnelClose[r], "psql", closeThrows)

\* The child emits 'error' (it could not be spawned).
ChildError(r, err, closeThrows) ==
  /\ proc = "running"
  /\ child[r] = "running"
  /\ MayThrow(r, closeThrows)
  /\ AfterEvent(r, "failed", exitArgs[r], transport[r],
                WaitForPSQLExitOnError(err), tunnelClose[r], "psql", closeThrows)

\* The bastion tunnel emits 'close': it dropped, or its close() completed.
TunnelClosed(r, closeThrows) ==
  /\ proc = "running"
  /\ transport[r] \in {"open", "closing"}
  /\ MayThrow(r, closeThrows)
  /\ AfterEvent(r, child[r], exitArgs[r], "closed",
                psqlExit[r], WaitForCloseOnClose, "tunnel", closeThrows)

\* The bastion tunnel emits 'error'.
TunnelError(r, err, closeThrows) ==
  /\ proc = "running"
  /\ transport[r] \in {"open", "closing"}
  /\ MayThrow(r, closeThrows)
  /\ AfterEvent(r, child[r], exitArgs[r], "errored",
                psqlExit[r], WaitForCloseOnError(err), "tunnel", closeThrows)

\* The listeners of 'SIGINT' are called in order.  The listener of run r
\* is () => kill(childProcess, 'SIGINT'); an exception it throws is
\* uncaught and ends the process.
RECURSIVE Dispatch(_, _, _)
Dispatch(ls, k, d) ==
  IF ls = <<>> THEN [crashed |-> FALSE, killed |-> k, delivered |-> d]
  ELSE IF Head(ls) = HostListener THEN Dispatch(Tail(ls), k, d)
  ELSE LET r == Head(ls)
           res == Kill(child[r], k[r])
       IN  IF res.threw
           THEN [crashed |-> TRUE, killed |-> k, delivered |-> d]
           ELSE Dispatch(Tail(ls),
                         [k EXCEPT ![r] = res.killed],
                         [d EXCEPT ![r] = IF res.sent THEN Append(@, "SIGINT") ELSE @])

\* The process receives SIGINT.  With no listener node's default applies:
\* the process ends.
Sigint ==
  /\ proc = "running"
  /\ IF sigintListeners = <<>>
     THEN /\ proc' = "terminated"
          /\ UNCHANGED <<killed, delivered>>
     ELSE LET d == Dispatch(sigintListeners, killed, delivered)
          IN  /\ proc' = IF d.crashed THEN "crashed" ELSE "running"
              /\ killed' = d.killed
              /\ delivered' = d.delivered
  /\ UNCHANGED <<pc, tunnelKind, transport, transportCloses, child, exitArgs,
                 psqlExit, tunnelClose, race, winner, result, calls,
                 sigintListeners, tun>>

Next ==
  \/ \E r \in Runs : Call(r)
  \/ \E r \in Runs : ConnectReject(r)
  \/ \E r \in Runs, needsBastion \in BOOLEAN : ConnectResolve(r, needsBastion)
  \/ \E r \in Runs, args \in ClosePayloads, closeThrows \in BOOLEAN :
       ChildClose(r, args, closeThrows)
  \/ \E r \in Runs, err \in SpawnErrs, closeThrows \in BOOLEAN :
       ChildError(r, err, closeThrows)
  \/ \E r \in Runs, closeThrows \in BOOLEAN : TunnelClosed(r, closeThrows)
  \/ \E r \in Runs, err \in TransportErrs, closeThrows \in BOOLEAN :
       TunnelError(r, err, closeThrows)
  \/ Sigint

Spec == Init /\ [][Next]_vars


(***************************************************************************)
(* A Tunnel used on its own: its constructor, waitForClose and close       *)
(* called in any order and number, and the events of its transport.        *)
(***************************************************************************)
\* new Tunnel(bastionTunnel), with a tunnel or with undefined.
NewTunnel(hasBastion) ==
  [kind |-> IF hasBastion THEN "bastion" ELSE "fake",
   transport |-> IF hasBastion THEN "open" ELSE "absent",
   transportCloses |-> 0,
   closeCalls |-> 0,
   waits |-> <<>>]

\* A waitForClose that remembers an earlier close().
WaitForCloseLatched(kind, closesSoFar) ==
  IF kind = "fake" /\ closesSoFar > 0 THEN Fulfilled ELSE Pending

\* The promise of waitForClose() when it is called: it awaits
\* once(emitter, 'close'), which hears only the events emitted from then on.
WaitForCloseStart(kind, closesSoFar) == Pending

TunInit ==
  /\ pc = [r \in Runs |-> "idle"]
  /\ tunnelKind = [r \in Runs |-> "unset"]
  /\ transport = [r \in Runs |-> "absent"]
  /\ transportCloses = [r \in Runs |-> 0]
  /\ child = [r \in Runs |-> "unspawned"]
  /\ exitArgs = [r \in Runs |-> <<>>]
  /\ killed = [r \in Runs |-> FALSE]
  /\ delivered = [r \in Runs |-> <<>>]
  /\ psqlExit = [r \in Runs |-> Unstarted]
  /\ tunnelClose = [r \in Runs |-> Unstarted]
  /\ race = [r \in Runs |-> Unstarted]
  /\ winner = [r \in Runs |-> "none"]
  /\ result = [r \in Runs |-> Unstarted]
  /\ calls = [r \in Runs |-> <<>>]
  /\ sigintListeners = <<>>
  /\ proc = "running"
  /\ tun \in {NewTunnel(hasBastion) : hasBastion \in BOOLEAN}

\* tunnel.waitForClose() is called; startedAt is the number of close()
\* calls made before it.
TunWaitForClose ==
  /\ Len(tun.waits) < MaxWaits
  /\ tun' = [tun EXCEPT !.waits =
               Append(@, [p |-> WaitForCloseStart(tun.kind, tun.closeCalls),
                          startedAt |-> tun.closeCalls])]
  /\ UNCHANGED runVars

\* tunnel.close() is called.
TunClose(closeThrows) ==
  /\ tun.closeCalls < MaxCloses
  /\ closeThrows => tun.kind = "bastion"
  /\ LET c == TunnelClose(tun.kind, tun.transport, Unstarted, closeThrows)
     IN  tun' = [kind |-> tun.kind,
                 transport |-> c.transport,
                 transportCloses |-> tun.transportCloses + c.closes,
                 closeCalls |-> tun.closeCalls + 1,
                 waits |-> [i \in DOMAIN tun.waits |->
                              [p |-> TunnelClose(tun.kind, tun.transport,
                                                 tun.waits[i].p, closeThrows).wait,
                               startedAt |-> tun.waits[i].startedAt]]]
  /\ UNCHANGED runVars

\* The bastion tunnel emits 'close'.
TunTransportClosed ==
  /\ tun.transport \in {"open", "closing"}
  /\ tun' = [tun EXCEPT
               !.transport = "closed",
               !.waits = [i \in DOMAIN @ |->
                            IF @[i].p = Pending
                            THEN [@[i] EXCEPT !.p = WaitForCloseOnClose]
                            ELSE @[i]]]
  /\ UNCHANGED runVars

\* The bastion tunnel emits 'error' while a waitForClose listens for it.
TunTransportError(err) ==
  /\ tun.transport \in {"open", "closing"}
  /\ \E i \in DOMAIN tun.waits : tun.waits[i].p = Pending
  /\ tun' = [tun EXCEPT
               !.transport = "errored",
               !.waits = [i \in DOMAIN @ |->
                            IF @[i].p = Pending
                            THEN [@[i] EXCEPT !.p = WaitForCloseOnError(err)]
                            ELSE @[i]]]
  /\ UNCHANGED runVars

TunNext ==
  \/ TunWaitForClose
  \/ \E closeThrows \in BOOLEAN : TunClose(closeThrows)
  \/ TunTransportClosed
  \/ \E err \in TransportErrs : TunTransportError(err)

TunSpec == TunInit /\ [][TunNext]_vars

(***************************************************************************)
(* Properties.                                                             *)
(***************************************************************************)
Connected(r) == tunnelKind[r] # "unset"
Settled(r) == pc[r] = "settled"
Registered(r) == \E i \in DOMAIN sigintListeners : sigintListeners[i] = r
Listeners(ls) == {ls[i] : i \in DOMAIN ls}
Count(r, f) == Cardinality({i \in DOMAIN calls[r] : calls[r][i].fn = f})
Threw(r, f) == \E i \in DOMAIN calls[r] : calls[r][i].fn = f /\ calls[r][i].threw

\* C1: in every run whose tunnel connected, the outcome the caller observes
\* is the outcome of whichever of the two waits settled the race; no error
\* of a teardown step replaces it.
C1_CallerObservesRaceOutcome ==
  \A r \in Runs : (Settled(r) /\ Connected(r)) => result[r] = race[r]

\* C2: when the tunnel closes first, the run returns while the child is
\* still running, and by then SIGKILL has been delivered to the child.
C2_TunnelFirstDeliversSIGKILL ==
  \A r \in Runs :
    (Settled(r) /\ winner[r] = "tunnel" /\ race[r] = Fulfilled)
      => \E i \in DOMAIN delivered[r] : delivered[r][i] = "SIGKILL"

\* C3: every run's teardown attempts all three steps, cleanupSignalTraps,
\* tunnel.close and kill, also when an earlier step throws.
C3_EveryTeardownStepAttempted ==
  \A r \in Runs :
    (Settled(r) /\ Connected(r))
      => /\ Count(r, "cleanupSignalTraps") >= 1
         /\ Count(r, "tunnel.close") >= 1
         /\ Count(r, "kill") >= 1

\* C4: when the child closes first with exit code n > 0, waitForPSQLExit
\* rejects with 'psql exited with code n' and that is what the run
\* surfaces; it is not reported as success.
C4_NonZeroExitIsChildFailed ==
  \A r \in Runs :
    (winner[r] = "psql" /\ child[r] = "exited"
       /\ exitArgs[r][1].type = "number" /\ exitArgs[r][1].num > 0)
      => LET e == Err("psql exited with code " \o ToString(exitArgs[r][1].num))
         IN  /\ psqlExit[r] = Rejected(e)
             /\ race[r] = Rejected(e)
             /\ result[r] = Rejected(e)

\* C5: a SIGINT received while a run is racing, with its listener
\* registered and its child running, is delivered to the child as SIGINT
\* and leaves the process running.
C5_SigintForwardedToChild ==
  [][Sigint =>
       \A r \in Runs :
         (pc[r] = "racing" /\ Registered(r) /\ child[r] = "running")
           => /\ proc' = "running"
              /\ delivered'[r] = Append(delivered[r], "SIGINT")]_vars

\* C6: kill on a child that exited on its own, never signalled through
\* kill, delivers no signal and does not throw.
C6_KillOnExitedChildIsSafe ==
  \A r \in Runs :
    (Settled(r) /\ winner[r] = "psql" /\ child[r] = "exited" /\ ~killed[r]
       /\ Count(r, "kill") >= 1)
      => (~Threw(r, "kill") /\ delivered[r] = <<>>)

\* C7: once a run has completed, resolved or rejected, the SIGINT listener
\* it installed is not registered, so a SIGINT calls kill on its child no
\* more.
C7_ListenerGoneAfterRun ==
  \A r \in Runs : Settled(r) => ~Registered(r)

C7_Witness ==
  \E r \in Runs :
    /\ Settled(r) /\ Connected(r) /\ proc = "running"
    /\ Count(r, "cleanupSignalTraps") = 1
    /\ \E q \in Runs : q # r /\ Registered(q)

\* C8: installing the trap and then calling its cleanup leaves the set of
\* SIGINT listeners as it was before the install.
C8_InstallCleanupRoundTrip ==
  \A r \in Runs :
    pc[r] = "connecting"
      => Listeners(CleanupSignalTraps(InstallSignalTrap(sigintListeners, r), r))
           = Listeners(sigintListeners)

\* C9: in every run whose tunnel connected, the teardown calls
\* tunnel.close() exactly once and kill(psql, 'SIGKILL') exactly once.
C9_ExactlyOnceCleanup ==
  \A r \in Runs :
    (Settled(r) /\ Connected(r))
      => (Count(r, "tunnel.close") = 1 /\ Count(r, "kill") = 1)

\* C10, as claimed: a tunnel that emits 'close', and no 'error', while the
\* child is running makes the run fail with the tunnel-failed error.
C10_TunnelDropIsTunnelFailed ==
  \A r \in Runs :
    (Settled(r) /\ winner[r] = "tunnel" /\ transport[r] = "closed")
      => result[r] = Rejected(TunnelFailedErr)

\* C10, amended: a tunnel that emits 'close', and no 'error', while the
\* child is running resolves waitForClose and settles the race as
\* fulfilled, and the run does not report the tunnel-failed error; that
\* error is the outcome of the race only when the transport emitted
\* 'error'.
C10_TunnelDropSettlesRaceFulfilled ==
  \A r \in Runs :
    /\ (winner[r] = "tunnel" /\ transport[r] = "closed")
         => /\ tunnelClose[r] = Fulfilled
            /\ race[r] = Fulfilled
            /\ result[r] # Rejected(TunnelFailedErr)
    /\ race[r] = Rejected(TunnelFailedErr)
         => (winner[r] = "tunnel" /\ transport[r] = "errored")

C10_Witness ==
  \E r \in Runs :
    /\ Settled(r) /\ winner[r] = "tunnel" /\ transport[r] = "closed"
    /\ child[r] = "running"


\* C13: when Tunnel.connect fails, runWithTunnel rejects with that failure
\* in the same step: no child is spawned, no SIGINT listener is installed
\* or removed, and no teardown step runs.
C13_ConnectFailureTouchesNothing ==
  [][\A r \in Runs :
       (pc[r] = "connecting" /\ pc'[r] = "settled")
         => /\ result'[r] = Rejected(ConnectErr)
            /\ child'[r] = "unspawned"
            /\ tunnelKind'[r] = "unset"
            /\ sigintListeners' = sigintListeners
            /\ calls'[r] = <<>>
            /\ transportCloses'[r] = 0
            /\ delivered'[r] = <<>>]_vars

C13_Witness ==
  \E r \in Runs :
    /\ Settled(r) /\ ~Connected(r) /\ result[r] = Rejected(ConnectErr)
    /\ \E q \in Runs : q # r /\ pc[q] = "racing" /\ Registered(q)

\* C14: when the child emits 'error' with code ENOENT, waitForPSQLExit
\* rejects with the install-help error; any other error of the child is
\* rethrown unchanged; the install-help error comes from nothing else.
C14_NotFoundIsClassified ==
  [][\A r \in Runs :
       /\ \A err \in SpawnErrs, ct \in BOOLEAN :
            ChildError(r, err, ct)
              => psqlExit'[r] = IF err.code = "ENOENT"
                                THEN Rejected(PsqlNotFoundErr)
                                ELSE Rejected(err)
       /\ (psqlExit[r] # Rejected(PsqlNotFoundErr)
             /\ psqlExit'[r] = Rejected(PsqlNotFoundErr))
            => (child[r] = "running" /\ child'[r] = "failed")]_vars

C14_Witness ==
  \E r, q \in Runs :
    /\ psqlExit[r] = Rejected(PsqlNotFoundErr) /\ child[r] = "failed"
    /\ psqlExit[q] \in {Rejected(e) : e \in SpawnErrs} /\ child[q] = "failed"

\* C15: when the transport of a bastion tunnel emits 'error' while
\* waitForClose is pending, waitForClose rejects with the fixed error
\* 'Secure tunnel to your database failed', never with the transport's
\* error or its message.
C15_TransportErrorIsWrapped ==
  \A r \in Runs :
    transport[r] = "errored"
      => /\ tunnelClose[r] = Rejected(TunnelFailedErr)
         /\ \A e \in TransportErrs :
              /\ tunnelClose[r].err # e
              /\ tunnelClose[r].err.message # e.message

C15_Witness ==
  \E r \in Runs :
    /\ transport[r] = "errored" /\ winner[r] = "tunnel"
    /\ race[r] = Rejected(TunnelFailedErr)

\* C16: the teardown steps a run attempts come in the fixed order
\* cleanupSignalTraps, tunnel.close, kill; the tunnel is closed and the
\* child killed only after the run's SIGINT listener has been removed.
TeardownOrder == <<"cleanupSignalTraps", "tunnel.close", "kill">>

C16_TeardownOrderFixed ==
  \A r \in Runs :
    /\ \E n \in 0..Len(TeardownOrder) :
         [i \in DOMAIN calls[r] |-> calls[r][i].fn] = SubSeq(TeardownOrder, 1, n)
    /\ (Count(r, "tunnel.close") >= 1 \/ Count(r, "kill") >= 1)
         => (calls[r][1].fn = "cleanupSignalTraps" /\ ~Registered(r))

C16_Witness ==
  \E r \in Runs :
    /\ Len(calls[r]) = Len(TeardownOrder) /\ winner[r] = "tunnel"
    /\ \E q \in Runs : q # r /\ Registered(q)

\* C17: a racing run settles, with its finally block run, in the step in
\* which its child emits 'close' or 'error' or its tunnel emits 'close' or
\* 'error'; in every other step it stays pending: nothing else, and no
\* timeout, settles it.
Ended(r) ==
  child[r] \in {"exited", "failed"} \/ transport[r] \in {"closed", "errored"}

C17_SettlesExactlyOnAnEvent ==
  [][\A r \in Runs :
       pc[r] = "racing"
         => /\ ~Ended(r) /\ result[r] = Pending
            /\ Ended(r)'
                 => /\ pc'[r] = "settled"
                    /\ result'[r].state \in {"fulfilled", "rejected"}
                    /\ race'[r].state \in {"fulfilled", "rejected"}
                    /\ Len(calls'[r]) >= 1
            /\ ~Ended(r)'
                 => /\ pc'[r] = "racing"
                    /\ result'[r] = Pending
                    /\ calls'[r] = <<>>]_vars

C17_Witness ==
  \E r, q \in Runs :
    /\ Settled(r) /\ Ended(r) /\ Len(calls[r]) >= 1
    /\ pc[q] = "racing" /\ ~Ended(q) /\ result[q] = Pending

\* C18: with overlapping runs at most one forwarding listener is
\* registered at any time, since an install removes every listener it
\* finds, and the cleanup of a run removes its own listener only.
ForwardingListeners == {i \in DOMAIN sigintListeners : sigintListeners[i] \in Runs}

C18_OneForwarderAndOwnCleanup ==
  [][/\ Cardinality(ForwardingListeners) <= 1
     /\ Cardinality(ForwardingListeners') <= 1
     /\ \A r \in Runs :
          /\ (pc[r] = "connecting" /\ pc'[r] = "racing")
               => sigintListeners' = <<r>>
          /\ (pc[r] = "racing" /\ pc'[r] = "settled")
               => Listeners(sigintListeners') = Listeners(sigintListeners) \ {r}]_vars

C18_Witness ==
  \E r, q \in Runs :
    /\ winner[r] # "none" /\ Settled(r)
    /\ pc[q] = "racing" /\ sigintListeners = <<q>>

\* C20: when the child closes first with exit code 0, or with a null code
\* because a signal ended it, waitForPSQLExit resolves and the race
\* settles as fulfilled.
C20_ZeroOrSignalExitResolves ==
  \A r \in Runs :
    (winner[r] = "psql" /\ child[r] = "exited"
       /\ (exitArgs[r][1] = JSNum(0) \/ exitArgs[r][1] = JSNull))
      => (psqlExit[r] = Fulfilled /\ race[r] = Fulfilled)

C20_Witness ==
  \E r \in Runs :
    /\ winner[r] = "psql" /\ child[r] = "exited" /\ exitArgs[r][1] = JSNull
    /\ transport[r] \in {"open", "closing"} /\ race[r] = Fulfilled


\* C11: a waitForClose pending on a handle without a tunnel leaves the
\* pending state only in a step that is a close() call; that call resolves
\* every pending wait, a resolved wait stays resolved, and no transport is
\* touched.
C11_FakeWaitResolvedOnlyByClose ==
  [][tun.kind = "fake"
       => /\ tun.transport = "absent" /\ tun'.transport = "absent"
          /\ tun.transportCloses = 0 /\ tun'.transportCloses = 0
          /\ \A i \in DOMAIN tun.waits :
               /\ (tun.waits[i].p = Pending /\ tun'.waits[i].p # Pending)
                    => tun'.closeCalls = tun.closeCalls + 1
               /\ tun.waits[i].p = Fulfilled => tun'.waits[i].p = Fulfilled
               /\ tun'.waits[i].p \in {Pending, Fulfilled}
          /\ tun'.closeCalls = tun.closeCalls + 1
               => \A i \in DOMAIN tun.waits : tun'.waits[i].p = Fulfilled]_vars

C11_Witness ==
  /\ tun.kind = "fake" /\ tun.closeCalls = 1
  /\ Len(tun.waits) >= 2
  /\ tun.waits[1].startedAt = 0 /\ tun.waits[1].p = Fulfilled
  /\ tun.waits[2].startedAt = 0 /\ tun.waits[2].p = Fulfilled

\* C12: a close() that directly follows an earlier close() on the same
\* handle, real or synthetic, changes nothing: no further transport-level
\* close and no change to any wait.
C12_CloseIsIdempotent ==
  [][(/\ tun.closeCalls >= 1
      /\ tun'.closeCalls = tun.closeCalls + 1
      /\ \A i \in DOMAIN tun.waits : tun.waits[i].startedAt < tun.closeCalls)
       => /\ tun'.transportCloses = tun.transportCloses
          /\ tun'.transport = tun.transport
          /\ tun'.waits = tun.waits]_vars

\* C19: a handle without a tunnel does not latch a close(): a waitForClose
\* started after one or more close() calls is pending as long as no
\* further close() is called, and resolved once one is.
C19_FakeCloseIsNotLatched ==
  tun.kind = "fake"
    => \A i \in DOMAIN tun.waits :
         /\ (tun.waits[i].startedAt >= 1 /\ tun.closeCalls = tun.waits[i].startedAt)
              => tun.waits[i].p = Pending
         /\ tun.closeCalls > tun.waits[i].startedAt
              => tun.waits[i].p = Fulfilled

C19_Witness ==
  /\ tun.kind = "fake" /\ tun.closeCalls = 1
  /\ Len(tun.waits) = 1
  /\ tun.waits[1].startedAt = 1 /\ tun.waits[1].p = Pending

====
